---- MODULE Spec2Model ----
(***************************************************************************)
(* Model of scripts/generate_theme_audio.py: the synthesis primitives, the *)
(* building blocks, the theme composers, the cue registry and the export   *)
(* loop (main / write_sound / _encode_mp3).                                *)
(*                                                                         *)
(* Two levels are modelled.                                                *)
(*  - The primitives (_normalize, _mix, _apply, _sweep, _noise, _render,   *)
(*    the envelopes) are operators on explicit sample sequences.  Rational *)
(*    samples are pairs <<num, den>>; a sample whose value is a            *)
(*    transcendental function of the phase is kept symbolic.               *)
(*  - A registry cue holds up to 617400 samples, so the composers are      *)
(*    translated on buffer shapes: the length of every buffer, the         *)
(*    envelope applied last, and the draws taken from the random source.   *)
(* Times are integers of milliseconds.                                     *)
(***************************************************************************)
EXTENDS Integers, Sequences, FiniteSets, TLC

VARIABLES
    pc,        \* position in main / write_sound / _encode_mp3
    k,         \* index in SOUNDS of the cue being exported
    rng,       \* state of the module-level random source
    seedCalls, \* history: number of random.seed calls
    samples,   \* the buffer shape returned by fn() for cue k
    pcm,       \* the normalized buffer handed to the encoder
    mp3,       \* the bytes returned by the encoder
    files,     \* output sink: identifier -> content written
    trace,     \* history: the steps performed, in order
    draws,     \* history: the batches drawn from the random source
    failedAt,  \* 0, or the index of the cue whose export raised
    call,      \* primitive-call harness: the call made
    result     \* primitive-call harness: its outcome

vars == <<pc, k, rng, seedCalls, samples, pcm, mp3, files, trace, draws,
          failedAt, call, result>>

-----------------------------------------------------------------------------
(* Bounds of the model *)

\* the unseeded source starts in one of MaxEntropy+1 states (OS entropy)
MaxEntropy == 1
\* longest explicit buffer given to a primitive
MaxLen == 2
\* explicit samples range over -MaxVal..MaxVal
MaxVal == 1
\* cap on the draw position reached by the primitive-call harness
MaxPos == 2
\* resolution of the modelled random(): it yields j/RES, j in 0..RES-1
RES == 4
\* number of leading samples of a cue that are modelled one by one
MaxHead == 2
\* longest note list given to _chime
MaxNotes == 2

-----------------------------------------------------------------------------
(* Program constants *)

SAMPLE_RATE == 44100

\* random.seed(42)
SEED == 42


-----------------------------------------------------------------------------
(* Arithmetic helpers *)

Min(a, b) == IF a <= b THEN a ELSE b
Max(a, b) == IF a >= b THEN a ELSE b
Abs(a) == IF a < 0 THEN -a ELSE a

\* min(...) of a non-empty set of integers
MinOf(S) == CHOOSE y \in S : \A z \in S : y <= z

\* Python int() of the rational n/d (d > 0): truncation toward zero
Trunc(n, d) == IF n >= 0 THEN n \div d ELSE -((-n) \div d)

\* rationals <<num, den>> with den > 0
RatEq(a, b) == a[1] * b[2] = b[1] * a[2]
RatLe(a, b) == a[1] * b[2] <= b[1] * a[2]
RatLt(a, b) == a[1] * b[2] < b[1] * a[2]
RECURSIVE Gcd(_, _)
Gcd(a, b) == IF b = 0 THEN a ELSE Gcd(b, a % b)
RatNorm(a) ==
    LET g == Gcd(Abs(a[1]), a[2]) IN <<a[1] \div g, a[2] \div g>>
RatAdd(a, b) == RatNorm(<<a[1] * b[2] + b[1] * a[2], a[2] * b[2]>>)
RatMul(a, b) == RatNorm(<<a[1] * b[1], a[2] * b[2]>>)
RatAbs(a) == <<Abs(a[1]), a[2]>>

-----------------------------------------------------------------------------
(* The module-level random source (import random, random.seed,             *)
(* random.uniform).  Its state is the seed it was last given and the       *)
(* number of values drawn since: the generator is a deterministic function *)
(* of the two.  Before random.seed the state comes from OS entropy.        *)

EntropyStates == {[seed |-> -(e + 1), pos |-> 0] : e \in 0..MaxEntropy}

\* random.seed(a)
random_seed(a) == [seed |-> a, pos |-> 0]

\* random.random() in state r, as j/RES with j in 0..RES-1
random_random(r) == <<(r.seed * r.seed + 3 * r.pos + r.seed * r.pos) % RES, RES>>

\* random.uniform(a, b) in state r: a + (b - a) * random()
random_uniform(r, a, b) ==
    RatAdd(a, RatMul(RatAdd(b, <<-a[1], a[2]>>), random_random(r)))

\* the state of the source after n further draws
Advance(r, n) == [r EXCEPT !.pos = @ + n]

-----------------------------------------------------------------------------
(* int(seconds * SAMPLE_RATE) for a time given in milliseconds.  The       *)
(* binary64 product falls just below the exact integer for the times of    *)
(* FloatBelow (1.4 s, 0.35 s, 0.1 + 0.6 s, 10.35 + 0.6 s), and int() then  *)
(* yields one sample less.                                                 *)

FloatBelow == {1400, 350, 700, 10950}

IntSamples(ms) ==
    Trunc(ms * SAMPLE_RATE, 1000) - (IF ms \in FloatBelow THEN 1 ELSE 0)

\* len(range(n))
RangeLen(n) == IF n > 0 THEN n ELSE 0

-----------------------------------------------------------------------------
(* _env_slow, one index at a time (the body of its loop)                   *)

env_slow_at(length, attack, release, i) ==
    LET rel_start == length - IntSamples(release)
    IN  IF i * 1000 < attack * SAMPLE_RATE
        THEN [branch |-> "attack", v |-> <<i * 1000, attack * SAMPLE_RATE>>]
        ELSE IF i > rel_start
        THEN [branch |-> "release",
              v |-> <<Max(0, (length - rel_start) - (i - rel_start)),
                      length - rel_start>>]
        ELSE [branch |-> "sustain", v |-> <<1, 1>>]

-----------------------------------------------------------------------------
(* Buffer shapes.  A shape records the length of a buffer, the envelope    *)
(* that _apply multiplied into it last (NoEnv when none), the batches of   *)
(* draws its computation took from the random source, in call order, and   *)
(* how many times it went through _normalize.  Frequencies and gains do    *)
(* not bear on any of these and are left out of the shape operators.       *)

NoEnv == [kind |-> "none", length |-> 0, attack |-> 0, release |-> 0]

Shape(n) == [len |-> n, env |-> NoEnv, draws |-> <<>>, norm |-> 0]

\* _render(duration, fn) for an fn that draws nothing
S_render(duration) == Shape(RangeLen(IntSamples(duration)))

\* _render(duration, fn) for an fn that calls random.uniform(lo, hi) once
S_render_uniform(duration, who, lo, hi) ==
    LET total == RangeLen(IntSamples(duration))
    IN  [Shape(total) EXCEPT
            !.draws = <<[by |-> who, lo |-> lo, hi |-> hi, n |-> total]>>]

S_env_percussive(length) == Shape(RangeLen(length))

S_env_slow(length, attack, release) ==
    [Shape(RangeLen(length)) EXCEPT
        !.env = [kind |-> "slow", length |-> length,
                 attack |-> attack, release |-> release]]

S_sweep(duration, shape) == Shape(RangeLen(IntSamples(duration)))

\* a plausible slip: the noise draws come from random.random(), in [0, 1)
S_noise_unit(length, color) ==
    [Shape(RangeLen(length)) EXCEPT
        !.draws = <<[by |-> "_noise", lo |-> <<0, 1>>, hi |-> <<1, 1>>,
                     n |-> RangeLen(length)]>>]

\* a plausible slip: the draw is taken inside the color branches and the
\* pink branch takes two per sample
S_noise_by_color(length, color) ==
    [Shape(RangeLen(length)) EXCEPT
        !.draws = <<[by |-> "_noise", lo |-> <<-1, 1>>, hi |-> <<1, 1>>,
                     n |-> IF color = "pink" THEN 2 * RangeLen(length)
                           ELSE RangeLen(length)]>>]

\* one random.uniform(-1, 1) per sample, whatever the color
S_noise(length, color) ==
    [Shape(RangeLen(length)) EXCEPT
        !.draws = <<[by |-> "_noise", lo |-> <<-1, 1>>, hi |-> <<1, 1>>,
                     n |-> RangeLen(length)]>>]

RECURSIVE ConcatDraws(_)
ConcatDraws(layers) ==
    IF layers = <<>> THEN <<>>
    ELSE Head(layers).draws \o ConcatDraws(Tail(layers))

\* zip(*layers) stops at the shortest layer; zip() of nothing is empty
S_mix(layers) ==
    [len |-> IF layers = <<>> THEN 0
             ELSE MinOf({layers[j].len : j \in 1..Len(layers)}),
     env |-> NoEnv,
     draws |-> ConcatDraws(layers),
     norm |-> 0]

S_apply(env, signal) ==
    [len |-> Min(env.len, signal.len),
     env |-> env.env,
     draws |-> env.draws \o signal.draws,
     norm |-> 0]

\* _normalize keeps the length; max() of an empty buffer raises ValueError
S_normalize(s) == [s EXCEPT !.norm = @ + 1]

\* the destination of _chime: int((max start + 0.6) * SAMPLE_RATE) zeros;
\* the overlay loop never changes its length
S_chime(notes) ==
    LET last == CHOOSE t \in {notes[j] : j \in 1..Len(notes)} :
                    \A u \in {notes[j] : j \in 1..Len(notes)} : u <= t
        duration == last + 600
    IN  Shape(RangeLen(IntSamples(duration)))

S_ui_click(tone) ==
    LET length == IntSamples(150)
        env == S_env_percussive(length)
        \* length / SAMPLE_RATE * SAMPLE_RATE gives length back
        wave == Shape(length)
    IN  S_apply(env, wave)

S_short_explosion(noise_color) ==
    LET dur == 450
        length == IntSamples(dur)
        env == S_env_percussive(length)
        thump == S_sweep(dur, "triangle")
        grit == S_noise(length, noise_color)
    IN  S_mix(<<S_apply(env, thump), S_apply(env, grit)>>)

-----------------------------------------------------------------------------
(* Theme composers, on shapes *)

space_fire ==
    LET dur == 280
        length == IntSamples(dur)
        env == S_env_percussive(length)
        zap == S_sweep(dur, "saw")
        hiss == S_noise(length, "pink")
    IN  S_mix(<<S_apply(env, zap), S_apply(env, hiss)>>)

\* the base-frequency lookup covers exactly small, medium, large
space_break(size) ==
    CASE size \in {"small", "medium", "large"} -> S_short_explosion("pink")

space_levelup == S_chime(<<0, 80, 160, 240>>)

space_gameover ==
    LET dur == 1400
        sweep == S_sweep(dur, "saw")
        env == S_env_percussive(IntSamples(dur))
    IN  S_apply(env, sweep)

space_player_hit ==
    LET dur == 350
        length == IntSamples(dur)
        env == S_env_percussive(length)
        zap == S_sweep(dur, "square")
        clank == S_short_explosion("white")
    IN  S_mix(<<S_apply(env, zap), clank>>)

space_powerup_collect == S_chime(<<0, 60, 120>>)

space_ui_click == S_ui_click("sine")

space_bgm ==
    LET dur == 14000
        total == IntSamples(dur)
        env == S_env_slow(total, 1200, 1200)
        bass == S_render(dur)
        arp == S_render(dur)
        lead == S_render(dur)
        hat == S_render_uniform(dur, "space_bgm.hat", <<7, 10>>, <<1, 1>>)
    IN  S_apply(env, S_mix(<<bass, arp, lead, hat>>))

medieval_fire ==
    LET dur == 500
        length == IntSamples(dur)
        env == S_env_percussive(length)
        roar == S_sweep(dur, "square")
        crackle == S_noise(length, "pink")
    IN  S_mix(<<S_apply(env, roar), S_apply(env, crackle)>>)

medieval_break_wyvern ==
    LET dur == 500
        length == IntSamples(dur)
        env == S_env_percussive(length)
        thump == S_sweep(dur, "triangle")
        rasp == S_noise(length, "brown")
        flap == S_sweep(dur, "sine")
    IN  S_mix(<<S_apply(env, thump), S_apply(env, rasp), S_apply(env, flap)>>)

medieval_break_bat ==
    LET dur == 280
        length == IntSamples(dur)
        env == S_env_percussive(length)
        squeak == S_sweep(dur, "sine")
        wing == S_noise(length, "white")
    IN  S_mix(<<S_apply(env, squeak), S_apply(env, wing)>>)

medieval_break_crystal ==
    LET dur == 500
        length == IntSamples(dur)
        env == S_env_percussive(length)
        chime == S_sweep(dur, "sine")
        shards == S_noise(length, "white")
    IN  S_mix(<<S_apply(env, chime), S_apply(env, shards)>>)

medieval_levelup == S_chime(<<0, 100, 200>>)

medieval_gameover ==
    LET dur == 1800
        env == S_env_percussive(IntSamples(dur))
        horn == S_sweep(dur, "triangle")
    IN  S_apply(env, horn)

medieval_player_hit ==
    LET dur == 400
        length == IntSamples(dur)
        env == S_env_percussive(length)
        clang == S_sweep(dur, "saw")
        scrape == S_noise(length, "pink")
    IN  S_mix(<<S_apply(env, clang), S_apply(env, scrape)>>)

medieval_powerup_collect == S_chime(<<0, 70, 140>>)

medieval_ui_click == S_ui_click("triangle")

\* pattern: the 8-note motif three times, one note every beat = 0.45 s
medieval_bgm ==
    LET dur == 14000
        total == IntSamples(dur)
        env == S_env_slow(total, 1000, 1200)
        drone == S_render(dur)
        beat == 450
        pattern == [i \in 1..(8 * 3) |-> (i - 1) * beat]
        lead == S_chime(pattern)
        shimmer == S_render(dur)
    IN  S_apply(env, S_mix(<<drone, lead, shimmer>>))

underwater_fire ==
    LET dur == 400
        length == IntSamples(dur)
        env == S_env_percussive(length)
        thump == S_sweep(dur, "sine")
        bubbles == S_noise(length, "pink")
    IN  S_mix(<<S_apply(env, thump), S_apply(env, bubbles)>>)

underwater_break(size) ==
    LET dur == CASE size = "small" -> 280
                 [] size = "medium" -> 450
                 [] size = "large" -> 600
        length == IntSamples(dur)
        env == S_env_percussive(length)
        blup == S_sweep(dur, "sine")
        fizz == S_noise(length, "pink")
    IN  S_mix(<<S_apply(env, blup), S_apply(env, fizz)>>)

underwater_levelup ==
    LET sonar == S_render(280)
    IN  S_mix(<<S_chime(<<0, 80, 160>>), sonar>>)

underwater_gameover ==
    LET dur == 1600
        env == S_env_percussive(IntSamples(dur))
        klaxon == S_sweep(dur, "sine")
    IN  S_apply(env, klaxon)

underwater_player_hit ==
    LET dur == 400
        length == IntSamples(dur)
        env == S_env_percussive(length)
        hull == S_sweep(dur, "triangle")
        hiss == S_noise(length, "white")
    IN  S_mix(<<S_apply(env, hull), S_apply(env, hiss)>>)

underwater_powerup_collect ==
    LET bubbles == S_render(200)
    IN  S_mix(<<S_chime(<<0, 50, 100>>), bubbles>>)

underwater_ui_click == S_ui_click("sine")

underwater_bgm ==
    LET dur == 14000
        total == IntSamples(dur)
        env == S_env_slow(total, 1500, 1500)
        pad == S_render(dur)
        sub == S_render(dur)
        ping == S_render(dur)
    IN  S_apply(env, S_mix(<<pad, sub, ping>>))

test_sound == S_render(350)

-----------------------------------------------------------------------------
(* The registry, in declaration order: identifier and generator *)

\* # Space
SpaceSounds ==
    << [name |-> "space-bgm.mp3", fn |-> space_bgm],
       [name |-> "space-fire.mp3", fn |-> space_fire],
       [name |-> "space-break-small.mp3", fn |-> space_break("small")],
       [name |-> "space-break-medium.mp3", fn |-> space_break("medium")],
       [name |-> "space-break-large.mp3", fn |-> space_break("large")],
       [name |-> "space-levelup.mp3", fn |-> space_levelup],
       [name |-> "space-gameover.mp3", fn |-> space_gameover],
       [name |-> "space-player_hit.mp3", fn |-> space_player_hit],
       [name |-> "space-powerup_collect.mp3", fn |-> space_powerup_collect],
       [name |-> "space-ui_click.mp3", fn |-> space_ui_click] >>

\* # Medieval
MedievalSounds ==
    << [name |-> "medieval-bgm.mp3", fn |-> medieval_bgm],
       [name |-> "medieval-fire.mp3", fn |-> medieval_fire],
       [name |-> "medieval-break-wyvern.mp3", fn |-> medieval_break_wyvern],
       [name |-> "medieval-break-bat.mp3", fn |-> medieval_break_bat],
       [name |-> "medieval-break-crystal.mp3", fn |-> medieval_break_crystal],
       [name |-> "medieval-levelup.mp3", fn |-> medieval_levelup],
       [name |-> "medieval-gameover.mp3", fn |-> medieval_gameover],
       [name |-> "medieval-player_hit.mp3", fn |-> medieval_player_hit],
       [name |-> "medieval-powerup_collect.mp3", fn |-> medieval_powerup_collect],
       [name |-> "medieval-ui_click.mp3", fn |-> medieval_ui_click] >>

\* # Underwater
UnderwaterSounds ==
    << [name |-> "underwater-bgm.mp3", fn |-> underwater_bgm],
       [name |-> "underwater-fire.mp3", fn |-> underwater_fire],
       [name |-> "underwater-break-small.mp3", fn |-> underwater_break("small")],
       [name |-> "underwater-break-medium.mp3", fn |-> underwater_break("medium")],
       [name |-> "underwater-break-large.mp3", fn |-> underwater_break("large")],
       [name |-> "underwater-levelup.mp3", fn |-> underwater_levelup],
       [name |-> "underwater-gameover.mp3", fn |-> underwater_gameover],
       [name |-> "underwater-player_hit.mp3", fn |-> underwater_player_hit],
       [name |-> "underwater-powerup_collect.mp3", fn |-> underwater_powerup_collect],
       [name |-> "underwater-ui_click.mp3", fn |-> underwater_ui_click] >>

\* # Simple wiring test tone
TestSounds ==
    << [name |-> "test-sound.mp3", fn |-> test_sound] >>

\* a plausible slip: the registry lacks one of the documented cues
SOUNDS_missing ==
    SpaceSounds \o MedievalSounds \o Tail(UnderwaterSounds) \o TestSounds

SOUNDS == SpaceSounds \o MedievalSounds \o UnderwaterSounds \o TestSounds

-----------------------------------------------------------------------------
(* The export: main, write_sound, _encode_mp3 *)

NoCall == [op |-> "none"]

\* the draw batches of a generator call, stamped with the state of the
\* source at which each batch starts
RECURSIVE Stamp(_, _, _)
Stamp(batches, r, cue) ==
    IF batches = <<>> THEN <<>>
    ELSE LET b == Head(batches)
         IN  <<[cue |-> cue, by |-> b.by, lo |-> b.lo, hi |-> b.hi, n |-> b.n,
                src |-> "random", seed |-> r.seed, first |-> r.pos]>>
             \o Stamp(Tail(batches), Advance(r, b.n), cue)

RECURSIVE TotalDraws(_)
TotalDraws(batches) ==
    IF batches = <<>> THEN 0
    ELSE Head(batches).n + TotalDraws(Tail(batches))

\* a plausible slip: the buffer reaches the encoder without _normalize
EncoderInputRaw(s) == s

\* _pcm16le(_normalize(samples)): what _encode_mp3 hands to the encoder
EncoderInput(s) == S_normalize(s)

Init ==
    /\ pc = "start"
    /\ k = 0
    /\ rng \in EntropyStates
    /\ seedCalls = 0
    /\ samples = <<>>
    /\ pcm = <<>>
    /\ mp3 = <<>>
    /\ files = <<>>
    /\ trace = <<>>
    /\ draws = <<>>
    /\ failedAt = 0
    /\ call = NoCall
    /\ result = NoCall

\* a plausible slip: main never seeds the source
MainNoSeed ==
    /\ pc = "start"
    /\ k' = 1
    /\ pc' = "loop"
    /\ UNCHANGED <<rng, seedCalls, samples, pcm, mp3, files, trace, draws,
                   failedAt, call, result>>

\* main: random.seed(42), then the for loop starts at the first item
MainSeed ==
    /\ pc = "start"
    /\ rng' = random_seed(SEED)
    /\ seedCalls' = seedCalls + 1
    /\ k' = 1
    /\ pc' = "loop"
    /\ UNCHANGED <<samples, pcm, mp3, files, trace, draws, failedAt, call, result>>

\* main: fn() of the next item of SOUNDS.items()
Render ==
    /\ pc = "loop"
    /\ k <= Len(SOUNDS)
    /\ LET s == SOUNDS[k].fn
       IN  /\ samples' = <<s>>
           /\ draws' = draws \o Stamp(s.draws, rng, k)
           /\ rng' = Advance(rng, TotalDraws(s.draws))
    /\ trace' = Append(trace, [k |-> k, step |-> "render"])
    /\ pc' = "mkdir"
    /\ UNCHANGED <<k, seedCalls, pcm, mp3, files, failedAt, call, result>>

\* main: the loop is exhausted and main returns
MainReturn ==
    /\ pc = "loop"
    /\ k > Len(SOUNDS)
    /\ pc' = "done"
    /\ UNCHANGED <<k, rng, seedCalls, samples, pcm, mp3, files, trace, draws,
                   failedAt, call, result>>

\* write_sound: path.parent.mkdir(parents=True, exist_ok=True)
Mkdir ==
    /\ pc = "mkdir"
    /\ pc' = "normalize"
    /\ UNCHANGED <<k, rng, seedCalls, samples, pcm, mp3, files, trace, draws,
                   failedAt, call, result>>

\* _encode_mp3: the encoder is configured, then pcm = _pcm16le(_normalize(samples));
\* max() of an empty buffer raises
Normalize ==
    /\ pc = "normalize"
    /\ IF samples[1].len = 0
       THEN /\ pc' = "failed"
            /\ failedAt' = k
            /\ UNCHANGED <<pcm, trace>>
       ELSE /\ pcm' = <<EncoderInput(samples[1])>>
            /\ trace' = Append(trace, [k |-> k, step |-> "normalize"])
            /\ pc' = "encode"
            /\ UNCHANGED failedAt
    /\ UNCHANGED <<k, rng, seedCalls, samples, mp3, files, draws, call, result>>

\* _encode_mp3: enc.encode(pcm) + enc.flush()
Encode ==
    /\ pc = "encode"
    /\ mp3' = <<[encoded |-> pcm[1]]>>
    /\ trace' = Append(trace, [k |-> k, step |-> "encode"])
    /\ pc' = "write"
    /\ UNCHANGED <<k, rng, seedCalls, samples, pcm, files, draws, failedAt,
                   call, result>>

\* the encoder collaborator raises: nothing catches it, main ends
EncoderFails ==
    /\ pc = "encode"
    /\ pc' = "failed"
    /\ failedAt' = k
    /\ UNCHANGED <<k, rng, seedCalls, samples, pcm, mp3, files, trace, draws,
                   call, result>>

\* write_sound: path.write_bytes(...)
WriteBytes ==
    /\ pc = "write"
    /\ files' = Append(files, [name |-> SOUNDS[k].name, bytes |-> mp3[1],
                               complete |-> TRUE])
    /\ trace' = Append(trace, [k |-> k, step |-> "write"])
    /\ pc' = "print"
    /\ UNCHANGED <<k, rng, seedCalls, samples, pcm, mp3, draws, failedAt,
                   call, result>>

\* the output sink raises in mkdir or in write_bytes (which may leave a
\* truncated file behind): nothing catches it, main ends
SinkFails ==
    /\ pc \in {"mkdir", "write"}
    /\ pc' = "failed"
    /\ failedAt' = k
    /\ \/ UNCHANGED files
       \/ /\ pc = "write"
          /\ files' = Append(files, [name |-> SOUNDS[k].name, bytes |-> mp3[1],
                                     complete |-> FALSE])
    /\ UNCHANGED <<k, rng, seedCalls, samples, pcm, mp3, trace, draws,
                   call, result>>

\* write_sound: print, return; main: the loop moves to the next item
NextSound ==
    /\ pc = "print"
    /\ k' = k + 1
    /\ samples' = <<>>
    /\ pcm' = <<>>
    /\ mp3' = <<>>
    /\ pc' = "loop"
    /\ UNCHANGED <<rng, seedCalls, files, trace, draws, failedAt, call, result>>

Next ==
    \/ MainSeed
    \/ Render
    \/ MainReturn
    \/ Mkdir
    \/ Normalize
    \/ Encode
    \/ EncoderFails
    \/ WriteBytes
    \/ SinkFails
    \/ NextSound

Spec == Init /\ [][Next]_vars

-----------------------------------------------------------------------------
(* The primitives on explicit buffers.  A call ends in a buffer or in an   *)
(* exception.                                                              *)

Ok(buf) == [ok |-> TRUE, buf |-> buf, error |-> "none"]
Raise(e) == [ok |-> FALSE, buf |-> <<>>, error |-> e]

\* max(abs(s) for s in samples), of a non-empty buffer of integers
MaxAbs(xs) ==
    LET A == {Abs(xs[i]) : i \in 1..Len(xs)}
    IN  CHOOSE m \in A : \A a \in A : a <= m

\* a plausible slip: the "or 1.0" guard is missing
_normalize_unguarded(xs, peak) ==
    IF xs = <<>>
    THEN Raise("ValueError")
    ELSE LET max_amp == MaxAbs(xs)
         IN  IF max_amp = 0
             THEN Raise("ZeroDivisionError")
             ELSE Ok([i \in 1..Len(xs) |->
                        RatMul(<<xs[i], 1>>, RatNorm(<<peak[1], peak[2] * max_amp>>))])

\* _normalize(samples, peak): integer samples, peak a rational; the scaled
\* samples are rationals
_normalize(xs, peak) ==
    IF xs = <<>>
    THEN Raise("ValueError")
    ELSE LET m == MaxAbs(xs)
             max_amp == IF m = 0 THEN 1 ELSE m
             scale == RatNorm(<<peak[1], peak[2] * max_amp>>)
         IN  Ok([i \in 1..Len(xs) |-> RatMul(<<xs[i], 1>>, scale)])

\* zip(*layers): the tuples of i-th samples, up to the shortest layer
Zip(layers) ==
    IF layers = <<>> THEN <<>>
    ELSE LET n == MinOf({Len(layers[j]) : j \in 1..Len(layers)})
         IN  [i \in 1..n |-> [j \in 1..Len(layers) |-> layers[j][i]]]

\* sum(values)
RECURSIVE Sum(_)
Sum(values) == IF values = <<>> THEN 0 ELSE Head(values) + Sum(Tail(values))

\* a plausible slip: zip_longest, the shorter layers padded with zeros
_mix_padded(layers) ==
    IF layers = <<>> THEN Ok(<<>>)
    ELSE LET L == {Len(layers[j]) : j \in 1..Len(layers)}
             n == CHOOSE m \in L : \A x \in L : x <= m
         IN  Ok([i \in 1..n |->
                   Sum([j \in 1..Len(layers) |->
                          IF i <= Len(layers[j]) THEN layers[j][i] ELSE 0])])

_mix(layers) ==
    LET z == Zip(layers) IN Ok([i \in 1..Len(z) |-> Sum(z[i])])

_apply(env, signal, gain) ==
    LET z == Zip(<<env, signal>>)
    IN  Ok([i \in 1..Len(z) |-> z[i][1] * z[i][2] * gain])

\* wave(phi) of _sweep.  The value stays symbolic: the function applied and
\* its argument, the phase in units of 2 pi / (SAMPLE_RATE * total)
wave(shape, phi) ==
    IF shape = "square" THEN [fn |-> "sign(sin)", phi |-> phi]
    ELSE IF shape = "triangle" THEN [fn |-> "triangle", phi |-> phi]
    ELSE IF shape = "saw" THEN [fn |-> "saw", phi |-> phi]
    ELSE [fn |-> "sin", phi |-> phi]

\* the loop of _sweep from index i on; freq = start + (end - start) * i / total,
\* phase += PI2 * freq / SAMPLE_RATE
RECURSIVE sweep_loop(_, _, _, _, _, _)
sweep_loop(i, total, start_freq, end_freq, shape, phase) ==
    IF i >= total THEN <<>>
    ELSE LET phase1 == phase + start_freq * total + (end_freq - start_freq) * i
         IN  <<wave(shape, phase1)>>
             \o sweep_loop(i + 1, total, start_freq, end_freq, shape, phase1)

_sweep(duration, start_freq, end_freq, shape) ==
    Ok(sweep_loop(0, IntSamples(duration), start_freq, end_freq, shape, 0))

\* a plausible slip: the filter state is reset inside the loop, so each
\* sample is filtered against 0.0 and not against the previous sample
RECURSIVE noise_loop_reset(_, _, _, _)
noise_loop_reset(n, color, r, last) ==
    IF n <= 0 THEN <<>>
    ELSE LET x == random_uniform(r, <<-1, 1>>, <<1, 1>>)
             brown == RatAdd(RatMul(<<2, 100>>, x), RatMul(<<98, 100>>, last))
             pink == RatAdd(RatMul(<<1, 10>>, x), RatMul(<<9, 10>>, last))
         IN  IF color = "brown"
             THEN <<brown>> \o noise_loop_reset(n - 1, color, Advance(r, 1), <<0, 1>>)
             ELSE IF color = "pink"
             THEN <<pink>> \o noise_loop_reset(n - 1, color, Advance(r, 1), <<0, 1>>)
             ELSE <<x>> \o noise_loop_reset(n - 1, color, Advance(r, 1), last)

\* the loop of _noise with n samples to go: its buffer
RECURSIVE noise_loop(_, _, _, _)
noise_loop(n, color, r, last) ==
    IF n <= 0 THEN <<>>
    ELSE LET x == random_uniform(r, <<-1, 1>>, <<1, 1>>)
             brown == RatAdd(RatMul(<<2, 100>>, x), RatMul(<<98, 100>>, last))
             pink == RatAdd(RatMul(<<1, 10>>, x), RatMul(<<9, 10>>, last))
         IN  IF color = "brown"
             THEN <<brown>> \o noise_loop(n - 1, color, Advance(r, 1), brown)
             ELSE IF color = "pink"
             THEN <<pink>> \o noise_loop(n - 1, color, Advance(r, 1), pink)
             ELSE <<x>> \o noise_loop(n - 1, color, Advance(r, 1), last)

\* _noise(length, color) called with the source in state r
_noise(length, color, r) == Ok(noise_loop(length, color, r, <<0, 1>>))

\* _render(duration, fn): fn(i / SAMPLE_RATE, i) stays symbolic
_render(duration, fn) ==
    Ok([j \in 1..RangeLen(IntSamples(duration)) |-> [fn |-> fn, i |-> j - 1]])

\* _env_percussive; attack and decay in milliseconds.  exp(-x) stays
\* symbolic, with x = (i - attack_n) / (SAMPLE_RATE * decay)
_env_percussive(length, attack, decay) ==
    LET attack_n == Max(1, IntSamples(attack))
    IN  Ok([j \in 1..RangeLen(length) |->
              IF j - 1 < attack_n
              THEN [fn |-> "ramp", x |-> <<j - 1, attack_n>>]
              ELSE [fn |-> "exp(-x)",
                    x |-> <<(j - 1 - attack_n) * 1000, SAMPLE_RATE * decay>>]])

\* a plausible slip: one loop up to rel_start and one from rel_start to
\* length, which runs over negative indices when the release is longer than
\* the buffer
_env_slow_two_loops(length, attack, release) ==
    LET rel_start == length - IntSamples(release)
    IN  Ok([j \in 1..RangeLen(rel_start) |->
               env_slow_at(length, attack, release, j - 1).v]
           \o [j \in 1..RangeLen(length - rel_start) |->
               env_slow_at(length, attack, release, rel_start + j - 1).v])


_env_slow(length, attack, release) ==
    Ok([j \in 1..RangeLen(length) |-> env_slow_at(length, attack, release, j - 1).v])

-----------------------------------------------------------------------------
(* A registry cue rendered with the source in state r.  Next to the shape  *)
(* of its buffer, the first samples of the space break cues are modelled   *)
(* one by one.                                                             *)

\* the first n samples of _sweep: after j steps of its loop the phase is the
\* sum over i < j of start_freq * total + (end_freq - start_freq) * i.
\* Frequencies are in tenths of a hertz.
sweep_head(n, duration, start_freq, end_freq, shape) ==
    LET total == IntSamples(duration)
    IN  [j \in 1..Min(n, RangeLen(total)) |->
            wave(shape, j * start_freq * total
                        + (end_freq - start_freq) * (((j - 1) * j) \div 2))]

\* a plausible slip: the filter state of the noise is a module-level value
\* that outlives the call, so a render starts from what the last one left
short_explosion_head_stale(n, base_freq, depth, noise_color, r) ==
    LET dur == 450
        m == Min(n, IntSamples(dur))
        env == _env_percussive(m, 5, 320).buf
        thump == sweep_head(m, dur, base_freq * 13, base_freq * 7, "triangle")
        stale == IF call.op = "cue" /\ result.head # <<>>
                 THEN result.head[Len(result.head)].grit
                 ELSE <<0, 1>>
        grit == noise_loop(m, noise_color, r, stale)
    IN  [i \in 1..m |-> [env |-> env[i], thump |-> thump[i], depth |-> depth,
                         grit |-> grit[i], gain |-> <<1, 4>>]]

\* the first n samples of _short_explosion(base_freq, depth, noise_color)
\* with the source in state r.  A sample is
\* env * thump * depth + env * grit * 0.25, kept as its factors.
short_explosion_head(n, base_freq, depth, noise_color, r) ==
    LET dur == 450
        m == Min(n, IntSamples(dur))
        env == _env_percussive(m, 5, 320).buf
        thump == sweep_head(m, dur, base_freq * 13, base_freq * 7, "triangle")
        grit == noise_loop(m, noise_color, r, <<0, 1>>)
    IN  [i \in 1..m |-> [env |-> env[i], thump |-> thump[i], depth |-> depth,
                         grit |-> grit[i], gain |-> <<1, 4>>]]

\* the first n samples of space_break(size)
space_break_head(n, size, r) ==
    LET base == CASE size = "small" -> 320
                  [] size = "medium" -> 230
                  [] size = "large" -> 150
        depth == IF size = "large" THEN <<7, 10>> ELSE <<6, 10>>
    IN  short_explosion_head(n, base, depth, "pink", r)

\* the head of the buffer of registry item j, where it is modelled
CueHead(j, r) ==
    IF SOUNDS[j].name = "space-break-small.mp3"
    THEN space_break_head(MaxHead, "small", r)
    ELSE IF SOUNDS[j].name = "space-break-medium.mp3"
    THEN space_break_head(MaxHead, "medium", r)
    ELSE IF SOUNDS[j].name = "space-break-large.mp3"
    THEN space_break_head(MaxHead, "large", r)
    ELSE <<>>

\* fn() of registry item j with the source in state r: the buffer (shape and
\* head), the draws taken and the state the source is left in
CueRender(j, r) ==
    LET s == SOUNDS[j].fn
    IN  [ok |-> TRUE, shape |-> s, head |-> CueHead(j, r),
         draws |-> Stamp(s.draws, r, j),
         after |-> Advance(r, TotalDraws(s.draws))]

-----------------------------------------------------------------------------
(* _chime, one note at a time.  The destination holds tens of thousands of *)
(* samples, so it is kept as its length and the overlays made so far; the  *)
(* value at an index is the sum of the terms the overlays put there.  A    *)
(* note is <<start, freq>>, the start in milliseconds.                     *)

\* max(t for t, _ in notes), of a non-empty list
Latest(notes) ==
    LET T == {notes[j][1] : j \in 1..Len(notes)}
    IN  CHOOSE t \in T : \A u \in T : u <= t

\* a plausible slip: the destination is sized by the note listed last
chime_alloc_last_listed(notes) ==
    IF notes = <<>>
    THEN Raise("ValueError")
    ELSE [ok |-> TRUE, error |-> "none",
          len |-> RangeLen(IntSamples(notes[Len(notes)][1] + 600)),
          overlays |-> <<>>]

\* duration = max(...) + 0.6; total = int(duration * SAMPLE_RATE);
\* out = [0.0] * total.  max() of an empty list raises.
chime_alloc(notes) ==
    IF notes = <<>>
    THEN Raise("ValueError")
    ELSE [ok |-> TRUE, error |-> "none",
          len |-> RangeLen(IntSamples(Latest(notes) + 600)),
          overlays |-> <<>>]

\* one pass of the outer loop: for i in range(n_len), idx = offset + i and
\* out[idx] += env[i] * tone[i] * base_gain if idx < total.  The item
\* assignment leaves len(out) alone.  Starts are not negative.
chime_overlay(out, note) ==
    LET n_len == IntSamples(400)
        offset == IntSamples(note[1])
        \* the number of i in range(n_len) with offset + i < total
        count == Max(0, Min(n_len, out.len - offset))
    IN  [out EXCEPT !.overlays =
            Append(@, [start |-> note[1], freq |-> note[2], offset |-> offset,
                       count |-> count, dropped |-> n_len - count])]

\* out[idx]: the terms env[i] * tone[i] * base_gain added to 0.0, in the
\* order of the overlays
RECURSIVE chime_terms(_, _)
chime_terms(overlays, idx) ==
    IF overlays = <<>> THEN <<>>
    ELSE LET o == Head(overlays)
         IN  (IF o.offset <= idx /\ idx < o.offset + o.count
              THEN <<[freq |-> o.freq, i |-> idx - o.offset]>>
              ELSE <<>>)
             \o chime_terms(Tail(overlays), idx)

chime_sample(out, idx) == chime_terms(out.overlays, idx)

-----------------------------------------------------------------------------
(* Calls of the primitives, one at a time, on inputs from bounded sets *)

Values == -MaxVal..MaxVal

BuffersOf(n) == UNION {[1..m -> Values] : m \in 0..n}

Buffers == BuffersOf(MaxLen)

\* peak 0.9 is the default; the others are further non-negative targets
Peaks == {<<9, 10>>, <<1, 2>>, <<1, 1>>, <<0, 1>>}

Gains == {-1, 0, 2}

\* the closed sets of tags, and one tag outside each
Shapes == {"sine", "square", "triangle", "saw"}
Colors == {"white", "pink", "brown"}

\* durations in milliseconds
Durations == {-1000, -1, 0, 1}

Lengths == -1..MaxLen

\* lengths for _env_slow: shorter than the windows, between one and two
\* windows of 1 ms (44 samples), and longer than both
EnvLengths == Lengths \cup {45, 60, 100}

InitCalls ==
    /\ pc = "calls"
    /\ k = 0
    /\ rng \in EntropyStates \cup {random_seed(SEED)}
    /\ seedCalls = 0
    /\ samples = <<>>
    /\ pcm = <<>>
    /\ mp3 = <<>>
    /\ files = <<>>
    /\ trace = <<>>
    /\ draws = <<>>
    /\ failedAt = 0
    /\ call = NoCall
    /\ result = NoCall

CallNormalize ==
    /\ pc = "calls"
    /\ \E b \in Buffers, peak \in Peaks :
          /\ call' = [op |-> "_normalize", buffer |-> b, peak |-> peak]
          /\ result' = _normalize(b, peak)
    /\ pc' = "returned"
    /\ UNCHANGED <<rng, k, seedCalls, samples, pcm, mp3, files, trace, draws, failedAt>>

CallMix ==
    /\ pc = "calls"
    /\ \E n \in 0..3 :
         \E layers \in [1..n -> IF n = 3 THEN BuffersOf(1) ELSE Buffers] :
          /\ call' = [op |-> "_mix", layers |-> layers]
          /\ result' = _mix(layers)
    /\ pc' = "returned"
    /\ UNCHANGED <<rng, k, seedCalls, samples, pcm, mp3, files, trace, draws, failedAt>>

CallApply ==
    /\ pc = "calls"
    /\ \E env \in Buffers, signal \in Buffers, gain \in Gains :
          /\ call' = [op |-> "_apply", env |-> env, signal |-> signal,
                      gain |-> gain]
          /\ result' = _apply(env, signal, gain)
    /\ pc' = "returned"
    /\ UNCHANGED <<rng, k, seedCalls, samples, pcm, mp3, files, trace, draws, failedAt>>

CallSweep ==
    /\ pc = "calls"
    /\ \E duration \in Durations, f \in {<<2, 2>>, <<1, 3>>, <<3, 1>>},
          shape \in Shapes \cup {"bogus"} :
          /\ call' = [op |-> "_sweep", duration |-> duration,
                      start_freq |-> f[1], end_freq |-> f[2], shape |-> shape]
          /\ result' = _sweep(duration, f[1], f[2], shape)
    /\ pc' = "returned"
    /\ UNCHANGED <<rng, k, seedCalls, samples, pcm, mp3, files, trace, draws, failedAt>>

CallNoise ==
    /\ pc = "calls"
    /\ \E length \in Lengths, color \in Colors \cup {"purple"} :
          /\ rng.pos + RangeLen(length) <= MaxPos
          /\ call' = [op |-> "_noise", length |-> length, color |-> color,
                      at |-> rng]
          /\ result' = _noise(length, color, rng)
          /\ rng' = Advance(rng, RangeLen(length))
    /\ pc' = "returned"
    /\ UNCHANGED <<k, seedCalls, samples, pcm, mp3, files, trace, draws, failedAt>>

CallRender ==
    /\ pc = "calls"
    /\ \E duration \in Durations, fn \in {"sin", "zero"} :
          /\ call' = [op |-> "_render", duration |-> duration, fn |-> fn]
          /\ result' = _render(duration, fn)
    /\ pc' = "returned"
    /\ UNCHANGED <<rng, k, seedCalls, samples, pcm, mp3, files, trace, draws, failedAt>>

CallEnvPercussive ==
    /\ pc = "calls"
    /\ \E length \in Lengths, attack \in {0, 1}, decay \in {80, 250} :
          /\ call' = [op |-> "_env_percussive", length |-> length,
                      attack |-> attack, decay |-> decay]
          /\ result' = _env_percussive(length, attack, decay)
    /\ pc' = "returned"
    /\ UNCHANGED <<rng, k, seedCalls, samples, pcm, mp3, files, trace, draws, failedAt>>

CallEnvSlow ==
    /\ pc = "calls"
    /\ \E length \in EnvLengths, attack \in {0, 1, 2}, release \in {0, 1, 2} :
          /\ call' = [op |-> "_env_slow", length |-> length,
                      attack |-> attack, release |-> release]
          /\ result' = _env_slow(length, attack, release)
    /\ pc' = "returned"
    /\ UNCHANGED <<rng, k, seedCalls, samples, pcm, mp3, files, trace, draws, failedAt>>

\* fn() of a registry cue, with the source in its current state
CallCue ==
    /\ pc = "calls"
    /\ \E j \in 1..Len(SOUNDS) :
          LET out == CueRender(j, rng)
          IN  /\ call' = [op |-> "cue", cue |-> j, at |-> rng, first |-> NoCall]
              /\ result' = out
              /\ rng' = out.after
    /\ pc' = "rendered"
    /\ UNCHANGED <<k, seedCalls, samples, pcm, mp3, files, trace, draws, failedAt>>

\* the source is put back into the state of the first render
\* (random.setstate) and fn() of the same cue is called again
CallCueAgain ==
    /\ pc = "rendered"
    /\ LET out == CueRender(call.cue, call.at)
       IN  /\ call' = [call EXCEPT !.first = result]
           /\ result' = out
           /\ rng' = out.after
    /\ pc' = "compared"
    /\ UNCHANGED <<k, seedCalls, samples, pcm, mp3, files, trace, draws, failedAt>>

\* start times in milliseconds, and note lists in any order
ChimeStarts == {0, 100, 500}

NoteLists ==
    UNION {[1..n -> ChimeStarts \X {440, 660}] : n \in 0..MaxNotes}

\* _chime(notes): the destination is allocated
CallChime ==
    /\ pc = "calls"
    /\ \E notes \in NoteLists :
          /\ call' = [op |-> "_chime", notes |-> notes, done |-> 0]
          /\ result' = chime_alloc(notes)
          /\ pc' = IF notes = <<>> THEN "returned" ELSE "chime"
    /\ UNCHANGED <<rng, k, seedCalls, samples, pcm, mp3, files, trace, draws, failedAt>>

\* _chime: the next note is overlaid; after the last one out is returned
ChimeNote ==
    /\ pc = "chime"
    /\ call.done < Len(call.notes)
    /\ result' = chime_overlay(result, call.notes[call.done + 1])
    /\ call' = [call EXCEPT !.done = @ + 1]
    /\ pc' = IF call.done + 1 = Len(call.notes) THEN "returned" ELSE "chime"
    /\ UNCHANGED <<rng, k, seedCalls, samples, pcm, mp3, files, trace, draws, failedAt>>

\* the call has returned; the next one may be made
Return ==
    /\ pc = "returned"
    /\ pc' = "calls"
    /\ call' = NoCall
    /\ result' = NoCall
    /\ UNCHANGED <<rng, k, seedCalls, samples, pcm, mp3, files, trace, draws, failedAt>>

NextCalls ==
    \/ CallNormalize
    \/ CallMix
    \/ CallApply
    \/ CallSweep
    \/ CallNoise
    \/ CallRender
    \/ CallEnvPercussive
    \/ CallEnvSlow
    \/ CallChime
    \/ ChimeNote
    \/ CallCue
    \/ CallCueAgain
    \/ Return

SpecCalls == InitCalls /\ [][NextCalls]_vars

-----------------------------------------------------------------------------
(* Properties of the export *)

IsRender(e) == e.step = "render"

\* C1: in any run of main the source is seeded exactly once, with the fixed
\* seed, before the first generator is invoked and never again; the
\* generators are invoked one at a time in the registry's declaration order,
\* so every batch of draws starts at a position of the seeded sequence that
\* the registry fixes (the batches are contiguous from position 0).
C1_SeededOnceInRegistryOrder ==
    /\ seedCalls = (IF pc = "start" THEN 0 ELSE 1)
    /\ pc = "start" => (trace = <<>> /\ draws = <<>>)
    /\ pc # "start" => rng.seed = SEED
    /\ LET R == SelectSeq(trace, IsRender)
       IN  \A j \in 1..Len(R) : R[j].k = j
    /\ \A j \in 1..Len(draws) :
          /\ draws[j].seed = SEED
          /\ draws[j].first =
                (IF j = 1 THEN 0 ELSE draws[j - 1].first + draws[j - 1].n)
          /\ j > 1 => draws[j - 1].cue <= draws[j].cue
    /\ pc # "start" =>
          rng.pos = (IF draws = <<>> THEN 0
                     ELSE draws[Len(draws)].first + draws[Len(draws)].n)

\* a complete run: every cue rendered, draws taken from the seeded source
C1_Witness ==
    /\ pc = "done"
    /\ seedCalls = 1
    /\ Len(SelectSeq(trace, IsRender)) = Len(SOUNDS)
    /\ Len(draws) > 1
    /\ rng.pos > 0

StepOrder == <<"render", "normalize", "encode", "write">>

\* C2: for every cue the export performs render, normalize, encode, write in
\* that order; the buffer is normalized exactly once and before it reaches
\* the encoder; the render of the next cue never starts before the write of
\* the previous cue has completed.
C2_RenderNormalizeEncodeWrite ==
    /\ \A j \in 1..Len(trace) :
          /\ trace[j].step = StepOrder[((j - 1) % 4) + 1]
          /\ trace[j].k = ((j - 1) \div 4) + 1
    /\ \A j \in 1..Len(samples) : samples[j].norm = 0
    /\ \A j \in 1..Len(pcm) : pcm[j].norm = 1
    /\ \A j \in 1..Len(mp3) : mp3[j].encoded.norm = 1
    /\ \A j \in 1..Len(files) : files[j].bytes.encoded.norm = 1

\* a complete run: four steps logged for every cue of the registry
C2_Witness ==
    /\ pc = "done"
    /\ Len(trace) = 4 * Len(SOUNDS)
    /\ Len(files) = Len(SOUNDS)

Written(j) ==
    \E f \in 1..Len(files) :
        files[f].name = SOUNDS[j].name /\ files[f].complete

\* C3: when the encoder or the output sink fails while cue failedAt is being
\* exported, only that cue is aborted: when the run has ended, every cue
\* before it is written and every cue after it has been exported as well.
C3_FailureAbortsOnlyTheCue ==
    pc \in {"done", "failed"} =>
        \A j \in 1..Len(SOUNDS) : j # failedAt => Written(j)

-----------------------------------------------------------------------------
(* Properties of the primitive calls *)

\* C4: a call of _sweep with a shape outside the closed set, or of _noise
\* with a color outside {white, pink, brown}, ends in an error outcome; it
\* never returns a buffer computed with a default shape or color.  (Stated
\* on calls whose duration or length is positive, so that the outcome is
\* decided by the tag alone.)
C4_UnknownTagIsRejected ==
    /\ (call.op = "_sweep" /\ call.shape \notin Shapes /\ call.duration > 0)
          => (~result.ok /\ result.buf = <<>>)
    /\ (call.op = "_noise" /\ call.color \notin Colors /\ call.length > 0)
          => (~result.ok /\ result.buf = <<>>)

\* C5: a synthesis call given a zero or negative duration (_sweep, _render)
\* or a zero or negative length (the envelopes, _noise) is rejected with an
\* error; it never returns an empty buffer as if it had succeeded.  (Stated
\* on calls whose shape or color is in the closed set.)
C5_DegenerateIsRejected ==
    /\ (call.op = "_sweep" /\ call.duration <= 0 /\ call.shape \in Shapes)
          => ~result.ok
    /\ (call.op = "_render" /\ call.duration <= 0) => ~result.ok
    /\ (call.op \in {"_env_percussive", "_env_slow"} /\ call.length <= 0)
          => ~result.ok
    /\ (call.op = "_noise" /\ call.length <= 0 /\ call.color \in Colors)
          => ~result.ok

-----------------------------------------------------------------------------
(* The documented registry *)

Themes == {"space", "medieval", "underwater"}

PlainCues ==
    {"fire", "levelup", "gameover", "player_hit", "powerup_collect",
     "ui_click", "bgm"}

\* break cues carry a size, or for medieval a creature/material
BreakVariants(theme) ==
    IF theme = "medieval" THEN {"wyvern", "bat", "crystal"}
    ELSE {"small", "medium", "large"}

\* {theme}-{cue}[-{variant}].{ext}
Identifier(theme, cue, variant) ==
    theme \o "-" \o cue \o (IF variant = "" THEN "" ELSE "-" \o variant)
          \o ".mp3"

DocumentedIds ==
    {Identifier(t, c, "") : t \in Themes, c \in PlainCues}
    \cup UNION {{Identifier(t, "break", v) : v \in BreakVariants(t)} : t \in Themes}

\* what the export has rendered and written is exactly the set Ids, once each
ExportsExactly(Ids) ==
    /\ \A j \in 1..Len(trace) : SOUNDS[trace[j].k].name \in Ids
    /\ \A i, j \in 1..Len(files) : files[i].name = files[j].name => i = j
    /\ pc = "done" =>
          /\ {files[j].name : j \in 1..Len(files)} = Ids
          /\ Len(files) = Cardinality(Ids)

\* C6 as stated: the identifiers of the registry, which the export goes
\* through, are exactly the documented (theme, cue[, variant]) set, with no
\* identifier outside the set and no duplicate.
C6_RegistryIsTheDocumentedSet == ExportsExactly(DocumentedIds)

\* C6 amended: exactly the documented set and the one further identifier
\* test-sound.mp3 (the wiring test tone, of no theme), with no duplicate.
C6_RegistryIsDocumentedPlusTestTone ==
    ExportsExactly(DocumentedIds \cup {"test-sound.mp3"})

\* a complete run: all 30 documented cues and the test tone are written
C6_Witness ==
    /\ pc = "done"
    /\ Len(files) = 31
    /\ \E j \in 1..Len(files) : files[j].name = "test-sound.mp3"
    /\ \E j \in 1..Len(files) : files[j].name = "medieval-break-crystal.mp3"

-----------------------------------------------------------------------------

\* sum over the layers of their i-th samples
RECURSIVE SumAt(_, _, _)
SumAt(layers, i, j) ==
    IF j = 0 THEN 0 ELSE layers[j][i] + SumAt(layers, i, j - 1)

LayerLens(layers) == {Len(layers[j]) : j \in 1..Len(layers)}

\* C7: _mix returns a buffer whose length is the minimum of the input
\* lengths and whose sample i is the sum of the inputs' samples i;
\* _apply(env, signal, gain) returns min(len(env), len(signal)) samples,
\* sample i being env[i] * signal[i] * gain; neither pads a shorter input
\* nor returns more samples than its shortest input has.
C7_MixApplyTruncateToShortest ==
    /\ call.op = "_mix" =>
          /\ result.ok
          /\ \A n \in LayerLens(call.layers) : Len(result.buf) <= n
          /\ call.layers # <<>> => Len(result.buf) \in LayerLens(call.layers)
          /\ \A i \in 1..Len(result.buf) :
                result.buf[i] = SumAt(call.layers, i, Len(call.layers))
    /\ call.op = "_apply" =>
          /\ result.ok
          /\ Len(result.buf) <= Len(call.env)
          /\ Len(result.buf) <= Len(call.signal)
          /\ Len(result.buf) \in {Len(call.env), Len(call.signal)}
          /\ \A i \in 1..Len(result.buf) :
                result.buf[i] = call.env[i] * call.signal[i] * call.gain

\* a mix of two layers of different lengths with a non-zero sum
C7_Witness ==
    /\ call.op = "_mix"
    /\ Len(call.layers) = 2
    /\ Len(call.layers[1]) > Len(call.layers[2])
    /\ Len(result.buf) = Len(call.layers[2])
    /\ \E i \in 1..Len(result.buf) : result.buf[i] # 0

-----------------------------------------------------------------------------

NonZero(b) == \E i \in 1..Len(b) : b[i] # 0
AllZero(b) == \A i \in 1..Len(b) : b[i] = 0

\* the output is the input times one common factor, and its largest
\* absolute sample is peak
ScaledToPeak(b, out, peak) ==
    /\ Len(out) = Len(b)
    /\ \A i, j \in 1..Len(b) :
          RatEq(RatMul(out[i], <<b[j], 1>>), RatMul(out[j], <<b[i], 1>>))
    /\ \A i \in 1..Len(out) : RatLe(RatAbs(out[i]), peak)
    /\ \E i \in 1..Len(out) : RatEq(RatAbs(out[i]), peak)

SameAsInput(b, out) ==
    /\ Len(out) = Len(b)
    /\ \A i \in 1..Len(b) : RatEq(out[i], <<b[i], 1>>)

-----------------------------------------------------------------------------

BgmIds == {"space-bgm.mp3", "medieval-bgm.mp3", "underwater-bgm.mp3"}

\* the branch of _env_slow that produced the gain of the last sample of s
TailBranch(s) ==
    env_slow_at(s.env.length, s.env.attack, s.env.release, s.len - 1).branch

\* C9: every background-music cue returns a buffer whose duration
\* (length / SAMPLE_RATE) lies between 12 and 14 seconds and whose final
\* samples are shaped by the release ramp of its slow envelope.
C9_BgmDurationAndRelease ==
    \A j \in 1..Len(samples) :
        SOUNDS[k].name \in BgmIds =>
            /\ 12 * SAMPLE_RATE <= samples[j].len
            /\ samples[j].len <= 14 * SAMPLE_RATE
            /\ samples[j].env.kind = "slow"
            /\ TailBranch(samples[j]) = "release"

-----------------------------------------------------------------------------

IsUniform(b, lo, hi) == RatEq(b.lo, lo) /\ RatEq(b.hi, hi)

\* C10 as stated: every value drawn from the shared source during a run is
\* a uniform(-1, 1) draw, and every noise call draws from that source.
C10_AllDrawsUniformUnit ==
    \A j \in 1..Len(draws) :
        /\ IsUniform(draws[j], <<-1, 1>>, <<1, 1>>)
        /\ draws[j].src = "random"

\* C10 amended: every noise call draws uniform(-1, 1) values from the
\* shared source; the only other draws of a run are the uniform(0.7, 1.0)
\* draws of the hat layer of space_bgm, from the same source.
C10_NoiseDrawsUniformUnit ==
    \A j \in 1..Len(draws) :
        /\ draws[j].src = "random"
        /\ draws[j].by = "_noise" => IsUniform(draws[j], <<-1, 1>>, <<1, 1>>)
        /\ draws[j].by # "_noise" =>
              /\ draws[j].by = "space_bgm.hat"
              /\ SOUNDS[draws[j].cue].name = "space-bgm.mp3"
              /\ IsUniform(draws[j], <<7, 10>>, <<1, 1>>)

\* the hat draws and the draws of a later noise call are both on record
C10_Witness ==
    /\ \E j \in 1..Len(draws) : draws[j].by = "space_bgm.hat" /\ draws[j].n > 0
    /\ \E j \in 1..Len(draws) : draws[j].by = "_noise" /\ draws[j].n > 0

-----------------------------------------------------------------------------
(* Properties of a cue rendered twice *)

-----------------------------------------------------------------------------
(* Properties of _chime *)

\* the notes overlaid so far whose 0.4 s of samples cover index idx
Covering(notes, done, idx) ==
    {j \in 1..done : /\ IntSamples(notes[j][1]) <= idx
                     /\ idx < IntSamples(notes[j][1]) + IntSamples(400)}

\* indices worth looking at: the ends of the buffer and of every note
ProbeIndices(notes, total) ==
    {idx \in {0, total - 1}
            \cup {IntSamples(notes[j][1]) : j \in 1..Len(notes)}
            \cup {IntSamples(notes[j][1]) + IntSamples(400) - 1 : j \in 1..Len(notes)}
            \cup {IntSamples(notes[j][1]) + IntSamples(400) : j \in 1..Len(notes)} :
        0 <= idx /\ idx < total}

-----------------------------------------------------------------------------
(* Properties of _noise *)

\* the weight of the draw in the filter of a color
DrawWeight(color) == IF color = "brown" THEN <<2, 100>> ELSE <<1, 10>>

\* the i-th draw of a _noise call made with the source in state r
DrawOf(r, i) == random_uniform(Advance(r, i - 1), <<-1, 1>>, <<1, 1>>)

InUnit(x) == RatLe(<<-1, 1>>, x) /\ RatLe(x, <<1, 1>>)

\* C13: _noise(length, brown or pink) returns max(length, 0) samples, each in
\* [-1, 1]: the first is a * draw + (1 - a) * 0 and every later one is
\* a * draw + (1 - a) * (previous sample), with a = 0.02 for brown and 0.1
\* for pink and the draws in [-1, 1].
C13_FilteredNoiseInUnitInterval ==
    (call.op = "_noise" /\ call.color \in {"brown", "pink"}) =>
        LET buf == result.buf
            a == DrawWeight(call.color)
            rest == RatAdd(<<1, 1>>, <<-a[1], a[2]>>)
        IN  /\ result.ok
            /\ Len(buf) = RangeLen(call.length)
            /\ \A i \in 1..Len(buf) :
                   LET x == DrawOf(call.at, i)
                       prev == IF i = 1 THEN <<0, 1>> ELSE buf[i - 1]
                   IN  /\ InUnit(x)
                       /\ InUnit(buf[i])
                       /\ buf[i] = RatAdd(RatMul(a, x), RatMul(rest, prev))

\* brown noise of at least two samples whose first draw is the extreme -1:
\* the second sample is filtered against a non-zero state
C13_Witness ==
    /\ pc = "returned"
    /\ call.op = "_noise"
    /\ call.color = "brown"
    /\ call.length >= 2
    /\ DrawOf(call.at, 1) = <<-1, 1>>
    /\ result.buf[1] # <<0, 1>>
    /\ result.buf[2] # RatMul(DrawWeight("brown"), DrawOf(call.at, 2))

-----------------------------------------------------------------------------
(* Properties of _env_slow *)

\* C14: for a length of at least 0 and non-negative attack and release,
\* whether the two windows fit in the buffer, overlap or exceed it,
\* _env_slow returns exactly length values, each in [0, 1].
C14_SlowEnvelopeInUnitInterval ==
    (call.op = "_env_slow" /\ call.length >= 0) =>
        /\ result.ok
        /\ Len(result.buf) = call.length
        /\ \A i \in 1..Len(result.buf) :
               /\ result.buf[i][2] > 0
               /\ RatLe(<<0, 1>>, result.buf[i])
               /\ RatLe(result.buf[i], <<1, 1>>)

\* a buffer shorter than attack plus release, with gains strictly inside
\* (0, 1) both in the attack and in the release
C14_Witness ==
    /\ pc = "returned"
    /\ call.op = "_env_slow"
    /\ call.length > 0
    /\ IntSamples(call.attack) < call.length
    /\ IntSamples(call.release) < call.length
    /\ IntSamples(call.attack) + IntSamples(call.release) > call.length
    /\ \E i \in 1..call.length :
          /\ env_slow_at(call.length, call.attack, call.release, i - 1).branch = "release"
          /\ RatLt(<<0, 1>>, result.buf[i])
          /\ RatLt(result.buf[i], <<1, 1>>)
    /\ \E i \in 1..call.length :
          /\ env_slow_at(call.length, call.attack, call.release, i - 1).branch = "attack"
          /\ RatLt(<<0, 1>>, result.buf[i])

-----------------------------------------------------------------------------
(* Properties of the draw positions in the export *)

\* the draws each registry cue takes, in registry order, as counted in a run
\* of the generators: the noise cues take one draw per noise sample (pink,
\* brown and white alike), space-bgm one per sample, the others none
CueDraws ==
    << 617400, 12348, 19845, 19845, 19845, 0, 0, 19845, 0, 0,
       0, 22050, 22050, 12348, 22050, 0, 0, 17640, 0, 0,
       0, 17640, 12348, 19845, 26460, 0, 0, 17640, 0, 0,
       0 >>

\* the position in the draw sequence at which registry item j starts
StartPosition(j) == Sum(SubSeq(CueDraws, 1, j - 1))

\* the cues rendered so far
Rendered ==
    IF pc = "start" THEN 0
    ELSE IF pc = "loop" THEN k - 1
    ELSE IF pc = "done" THEN Len(SOUNDS)
    ELSE k

\* C15: in the export every cue takes its fixed number of draws: a cue with
\* noise takes one draw per noise sample whatever the color, a cue without
\* noise and without direct draws takes none, and so each cue starts at the
\* position given by the cues before it in the registry.
C15_DrawCountsAndStartsAreFixed ==
    /\ Len(CueDraws) = Len(SOUNDS)
    /\ pc # "start" => rng = [seed |-> SEED, pos |-> StartPosition(Rendered + 1)]
    /\ \A j \in 1..Rendered :
           LET B == {i \in 1..Len(draws) : draws[i].cue = j}
           IN  IF CueDraws[j] = 0
               THEN B = {}
               ELSE /\ Cardinality(B) = 1
                    /\ \A i \in B : /\ draws[i].n = CueDraws[j]
                                     /\ draws[i].first = StartPosition(j)
                                     /\ draws[i].seed = SEED
    /\ \A i \in 1..Len(draws) : draws[i].cue \in 1..Rendered

\* the export has finished: cues with pink, brown and white noise and cues
\* without draws have been rendered, and the source stands after the last draw
C15_Witness ==
    /\ pc = "done"
    /\ rng.pos = 899199
    /\ Len(draws) = 16
    /\ \E i \in 1..Len(draws) :
          SOUNDS[draws[i].cue].name = "medieval-break-wyvern.mp3"
    /\ \E i \in 1..Len(draws) :
          /\ SOUNDS[draws[i].cue].name = "underwater-break-large.mp3"
          /\ draws[i].first = 899199 - 17640 - 26460

====
